---- MODULE Spec2Model ----
(***************************************************************************)
(* Model of the form segmentation service of resyft-ai-service/main.py:    *)
(* the PII keyword matcher (check_pii), the line classifier                *)
(* (classify_text_type), the /analyze-form handler (analyze_form), the     *)
(* grouping functions (group_segments_by_page, group_segments_by_section)  *)
(* and the /store-embeddings handler (store_embeddings).                   *)
(*                                                                         *)
(* A Python str is modelled as a sequence of one-character strings, so     *)
(* that lower(), strip(), len(), `in`, startswith() and endswith() are     *)
(* computed as Python computes them.  The three ballot-box characters are  *)
(* the one-element atoms "U2610", "U2611" and "U25A1".                     *)
(***************************************************************************)
EXTENDS Integers, Sequences, FiniteSets, TLC

VARIABLES
    call,       \* the classify_text_type call in progress: arguments and return value
    pii,        \* the check_pii calls in progress: a text, a re-casing of it, both results
    grp         \* the grouping call in progress: the segment list and both groupings

(***************************************************************************)
(* Python str primitives                                                   *)
(***************************************************************************)
UpperCase == <<"A","B","C","D","E","F","G","H","I","J","K","L","M","N","O","P","Q","R","S","T","U","V","W","X","Y","Z">>
LowerCase == <<"a","b","c","d","e","f","g","h","i","j","k","l","m","n","o","p","q","r","s","t","u","v","w","x","y","z">>

\* str.lower() on one character
LowerChar(c) ==
    IF \E i \in 1..Len(UpperCase) : UpperCase[i] = c
    THEN LowerCase[CHOOSE i \in 1..Len(UpperCase) : UpperCase[i] = c]
    ELSE c

\* str.upper() on one character
UpperChar(c) ==
    IF \E i \in 1..Len(LowerCase) : LowerCase[i] = c
    THEN UpperCase[CHOOSE i \in 1..Len(LowerCase) : LowerCase[i] = c]
    ELSE c

\* str.lower()
ToLower(s) == [i \in 1..Len(s) |-> LowerChar(s[i])]

\* str.upper()
ToUpper(s) == [i \in 1..Len(s) |-> UpperChar(s[i])]

\* the characters str.strip() removes
IsSpace(c) == c \in {" ", "\t", "\n"}

\* str.strip()
Strip(s) ==
    LET keep == {i \in 1..Len(s) : ~IsSpace(s[i])}
    IN  IF keep = {} THEN <<>>
        ELSE LET lo == CHOOSE i \in keep : \A j \in keep : i <= j
                 hi == CHOOSE i \in keep : \A j \in keep : j <= i
             IN  SubSeq(s, lo, hi)

\* sub in s
Contains(s, sub) ==
    \E i \in 1..(Len(s) - Len(sub) + 1) : SubSeq(s, i, i + Len(sub) - 1) = sub

\* s.startswith(p)
StartsWith(s, p) == Len(p) <= Len(s) /\ SubSeq(s, 1, Len(p)) = p

\* s.endswith(p)
EndsWith(s, p) == Len(p) <= Len(s) /\ SubSeq(s, Len(s) - Len(p) + 1, Len(s)) = p

\* any(kw in s for kw in kws)
AnyIn(kws, s) == \E i \in 1..Len(kws) : Contains(s, kws[i])

\* s.startswith((p1, p2, ...))
StartsWithAny(s, ps) == \E i \in 1..Len(ps) : StartsWith(s, ps[i])

(***************************************************************************)
(* check_pii                                                               *)
(***************************************************************************)
kw_social_security == <<"s","o","c","i","a","l"," ","s","e","c","u","r","i","t","y">>
kw_ssn == <<"s","s","n">>
kw_date_of_birth == <<"d","a","t","e"," ","o","f"," ","b","i","r","t","h">>
kw_dob == <<"d","o","b">>
kw_driver_license == <<"d","r","i","v","e","r"," ","l","i","c","e","n","s","e">>
kw_passport == <<"p","a","s","s","p","o","r","t">>
kw_bank_account == <<"b","a","n","k"," ","a","c","c","o","u","n","t">>
kw_credit_card == <<"c","r","e","d","i","t"," ","c","a","r","d">>
kw_tax_id == <<"t","a","x"," ","i","d">>
kw_phone == <<"p","h","o","n","e">>
kw_email == <<"e","m","a","i","l">>
kw_address == <<"a","d","d","r","e","s","s">>
kw_salary == <<"s","a","l","a","r","y">>
kw_income == <<"i","n","c","o","m","e">>
kw_signature == <<"s","i","g","n","a","t","u","r","e">>

PII_KEYWORDS ==
    << kw_social_security, kw_ssn, kw_date_of_birth, kw_dob, kw_driver_license,
       kw_passport, kw_bank_account, kw_credit_card, kw_tax_id, kw_phone, kw_email,
       kw_address, kw_salary, kw_income, kw_signature >>

\* a check_pii that forgets text.lower()
check_pii_no_lower(text) == AnyIn(PII_KEYWORDS, text)

\* a check_pii whose keyword list lost its last entries
check_pii_short_list(text) == AnyIn(SubSeq(PII_KEYWORDS, 1, 9), ToLower(text))

check_pii(text) == AnyIn(PII_KEYWORDS, ToLower(text))

(***************************************************************************)
(* classify_text_type                                                      *)
(***************************************************************************)
kw_section == <<"s","e","c","t","i","o","n">>
kw_part == <<"p","a","r","t">>
kw_step == <<"s","t","e","p">>
kw_instructions == <<"i","n","s","t","r","u","c","t","i","o","n","s">>
kw_information == <<"i","n","f","o","r","m","a","t","i","o","n">>
tok_yes == <<"y","e","s">>
tok_no == <<"n","o">>
tok_box_empty == <<"["," ","]">>
tok_box_x == <<"[","x","]">>
tok_ballot == <<"U2610">>
tok_ballot_checked == <<"U2611">>
pat_sign_here == <<"s","i","g","n"," ","h","e","r","e">>
pat_date_colon == <<"d","a","t","e",":">>
ch_colon == <<":">>
ch_question == <<"?">>

HEADER_KEYWORDS == << kw_section, kw_part, kw_step, kw_instructions, kw_information >>

CHECKBOX_PREFIXES == << tok_yes, tok_no, tok_box_empty, tok_box_x, tok_ballot, tok_ballot_checked >>

\* y0 < page_height * 0.15, on integer coordinates
InTopOfPage(y0, page_height) == y0 * 100 < page_height * 15

\* line 154-155: the section-header test
IsSectionHeader(text, bbox, page_height) ==
    /\ Len(text) < 50
    /\ (InTopOfPage(bbox[2], page_height) \/ EndsWith(text, ch_colon))
    /\ AnyIn(HEADER_KEYWORDS, Strip(ToLower(text)))

\* a label test that knows the colon only
IsLabel_colon_only(text) == Len(text) < 40 /\ EndsWith(text, ch_colon)

\* line 159: the label test
IsLabel(text) ==
    Len(text) < 40 /\ (EndsWith(text, ch_colon) \/ EndsWith(text, ch_question))

\* line 163: the checkbox test
IsCheckbox(text) == StartsWithAny(Strip(ToLower(text)), CHECKBOX_PREFIXES)

\* line 167: the signature test
IsSignature(text) ==
    LET text_lower == Strip(ToLower(text))
    IN  \/ Contains(text_lower, kw_signature)
        \/ Contains(text_lower, pat_sign_here)
        \/ Contains(text_lower, pat_date_colon)

\* line 171: the instructions test
IsInstructions(text) == Len(text) > 100

\* a classifier that tests the length before the signature patterns
classify_text_type_length_first(text, bbox, page_width, page_height) ==
    IF IsSectionHeader(text, bbox, page_height) THEN "Section Header"
    ELSE IF IsLabel(text) THEN "Label"
    ELSE IF IsCheckbox(text) THEN "Checkbox"
    ELSE IF IsInstructions(text) THEN "Instructions"
    ELSE IF IsSignature(text) THEN "Signature"
    ELSE "Text"

\* a classifier that tests the checkbox prefixes first
classify_text_type_checkbox_first(text, bbox, page_width, page_height) ==
    IF IsCheckbox(text) THEN "Checkbox"
    ELSE IF IsSectionHeader(text, bbox, page_height) THEN "Section Header"
    ELSE IF IsLabel(text) THEN "Label"
    ELSE IF IsSignature(text) THEN "Signature"
    ELSE IF IsInstructions(text) THEN "Instructions"
    ELSE "Text"

\* a classifier that tests the label rule ahead of the section-header rule
classify_text_type_label_first(text, bbox, page_width, page_height) ==
    IF IsLabel(text) THEN "Label"
    ELSE IF IsSectionHeader(text, bbox, page_height) THEN "Section Header"
    ELSE IF IsCheckbox(text) THEN "Checkbox"
    ELSE IF IsSignature(text) THEN "Signature"
    ELSE IF IsInstructions(text) THEN "Instructions"
    ELSE "Text"

\* a classifier without the final return: Python returns None
classify_text_type_no_default(text, bbox, page_width, page_height) ==
    IF IsSectionHeader(text, bbox, page_height) THEN "Section Header"
    ELSE IF IsLabel(text) THEN "Label"
    ELSE IF IsCheckbox(text) THEN "Checkbox"
    ELSE IF IsSignature(text) THEN "Signature"
    ELSE IF IsInstructions(text) THEN "Instructions"
    ELSE "None"

classify_text_type(text, bbox, page_width, page_height) ==
    IF IsSectionHeader(text, bbox, page_height) THEN "Section Header"
    ELSE IF IsLabel(text) THEN "Label"
    ELSE IF IsCheckbox(text) THEN "Checkbox"
    ELSE IF IsSignature(text) THEN "Signature"
    ELSE IF IsInstructions(text) THEN "Instructions"
    ELSE "Text"

(***************************************************************************)
(* Inputs of the pure functions                                            *)
(***************************************************************************)
sk_routing_number == <<"r","o","u","t","i","n","g"," ","n","u","m","b","e","r">>
sk_city == <<"c","i","t","y">>
sk_state == <<"s","t","a","t","e">>
sk_zip == <<"z","i","p">>
sk_employer == <<"e","m","p","l","o","y","e","r">>
w_dog == <<"d","o","g">>
w_ss_n == <<"s","s"," ","n">>
w_signatur == <<"s","i","g","n","a","t","u","r">>
ex_my_ssn == <<"M","y"," ","S","S","N"," ","i","s"," ","1","2","3","-","4","5","-","6","7","8","9">>
ex_sky == <<"T","h","e"," ","s","k","y"," ","i","s"," ","b","l","u","e">>
ex_social == <<"S","o","c","i","a","l"," ","S","e","c","u","r","i","t","y"," ","N","u","m","b","e","r">>
pre_my == <<"M","y"," ">>
suf_is_number == <<" ","i","s"," ","1","2","3","-","4","5","-","6","7","8","9">>

\* the words a check_pii input is built around
PiiWords ==
    { PII_KEYWORDS[i] : i \in 1..Len(PII_KEYWORDS) }
    \cup { sk_routing_number, sk_city, sk_state, sk_zip, sk_employer }
    \cup { w_dog, w_ss_n, w_signatur, <<>> }

PiiBaseTexts ==
    { p \o w \o s : p \in { <<>>, pre_my }, w \in PiiWords, s \in { <<>>, suf_is_number } }
    \cup { ex_my_ssn, ex_sky, ex_social }

Casings == { "same", "lower", "upper", "alternate" }

\* t with its letters re-cased
Recase(t, c) ==
    CASE c = "same"      -> t
      [] c = "lower"     -> ToLower(t)
      [] c = "upper"     -> ToUpper(t)
      [] c = "alternate" -> [i \in 1..Len(t) |-> IF i % 2 = 1 THEN UpperChar(t[i]) ELSE LowerChar(t[i])]

NoPii == [made |-> FALSE, text |-> <<>>, result |-> FALSE, recased |-> <<>>, result_recased |-> FALSE]

h_Signature == <<"S","i","g","n","a","t","u","r","e">>
h_SIGNATURE == <<"S","I","G","N","A","T","U","R","E">>
h_Sign_here == <<"S","i","g","n"," ","h","e","r","e">>
h_Date == <<"D","a","t","e",":">>
h_No == <<"N","o">>
h_Yes == <<"Y","e","s">>
h_Notice == <<"N","o","t","i","c","e">>
h_Yesterday == <<"Y","e","s","t","e","r","d","a","y">>
h_box_empty == <<"["," ","]">>
h_box_x == <<"[","X","]">>
h_ballot == <<"U2610">>
h_ballot_checked == <<"U2611">>
h_white_square == <<"U25A1">>
h_Name == <<"N","a","m","e">>
h_sp_No == <<" "," ","n","o">>
h_Section == <<"S","e","c","t","i","o","n">>
h_PART == <<"P","A","R","T">>
m_signature == <<" ","s","i","g","n","a","t","u","r","e">>
m_information == <<" ","I","n","f","o","r","m","a","t","i","o","n">>
t_colon_sp == <<":"," ">>
t_sp == <<" ">>

Heads ==
    { <<>>, h_Signature, h_SIGNATURE, h_Sign_here, h_Date, h_No, h_Yes, h_Notice,
      h_Yesterday, h_box_empty, h_box_x, h_ballot, h_ballot_checked, h_white_square,
      h_Name, h_sp_No, h_Section, h_PART }

Mids == { <<>>, m_signature, m_information }

Tails == { <<>>, ch_colon, ch_question, t_colon_sp, t_sp }

\* filler lengths, around the classifier's thresholds 40, 50 and 100
PadLens == { 0, 30, 39, 40, 49, 50, 100, 101 }

Pad(n) == [i \in 1..n |-> "x"]

ClassifyTexts ==
    { h \o m \o Pad(n) \o t : h \in Heads, m \in Mids, n \in PadLens, t \in Tails }

\* (x0, y0, x1, y1) of a line, in points
BBoxes == { <<72, 0, 300, 12>>, <<72, 118, 300, 130>>, <<72, 119, 300, 131>>, <<72, 700, 300, 712>> }

\* (page_width, page_height): US Letter
PageSizes == { <<612, 792>> }

NoCall ==
    [made |-> FALSE, text |-> <<>>, bbox |-> <<0, 0, 0, 0>>, page_width |-> 0,
     page_height |-> 0, result |-> ""]

(***************************************************************************)
(* Python values that may be None, a str or a bool                         *)
(***************************************************************************)
PyNone == [kind |-> "none", s |-> <<>>, b |-> FALSE]
PyStr(s) == [kind |-> "str", s |-> s, b |-> FALSE]
PyBool(b) == [kind |-> "bool", s |-> <<>>, b |-> b]

s_True == <<"T","r","u","e">>
s_False == <<"F","a","l","s","e">>
s_None == <<"N","o","n","e">>

\* bool(v)
Truthy(v) == (v.kind = "str" /\ v.s # <<>>) \/ (v.kind = "bool" /\ v.b)

\* an "or" that keeps its left operand
OrElse_keep(v, default) == v

\* v or default
OrElse(v, default) == IF Truthy(v) THEN v ELSE default

\* a formatting that writes booleans in lower case
Format_lower_bool(v) ==
    CASE v.kind = "str"  -> v.s
      [] v.kind = "bool" -> IF v.b THEN <<"t","r","u","e">> ELSE <<"f","a","l","s","e">>
      [] v.kind = "none" -> s_None

\* f"{v}"
Format(v) ==
    CASE v.kind = "str"  -> v.s
      [] v.kind = "bool" -> IF v.b THEN s_True ELSE s_False
      [] v.kind = "none" -> s_None

\* " ".join(texts)
RECURSIVE JoinSpace(_)
JoinSpace(texts) ==
    IF texts = <<>> THEN <<>>
    ELSE IF Len(texts) = 1 THEN texts[1]
    ELSE texts[1] \o <<" ">> \o JoinSpace(Tail(texts))

(***************************************************************************)
(* The documents the PDF backend hands to analyze_form                     *)
(***************************************************************************)
s_APPLICATION_FORM == <<"A","P","P","L","I","C","A","T","I","O","N"," ","F","O","R","M">>
s_Name_colon == <<"N","a","m","e",":">>
s_John_Doe == <<"J","o","h","n"," ","D","o","e">>
s_SSN_colon == <<"S","S","N",":">>
s_ssn_number == <<"1","2","3","-","4","5","-","6","7","8","9">>
s_Signature_line == <<"S","i","g","n","a","t","u","r","e",":"," ","_","_","_","_","_","_","_","_","_","_","_">>
s_two_spaces == <<" "," ">>
s_Field == <<"F","i","e","l","d">>
s_Unknown == <<"U","n","k","n","o","w","n">>
s_colon_space == <<":"," ">>
s_file_pdf == <<"f","i","l","e",".","p","d","f">>
s_form_pdf == <<"f","o","r","m",".","p","d","f">>
s_agree == <<"a","g","r","e","e">>
s_email == <<"e","m","a","i","l">>
s_city == <<"c","i","t","y">>
s_jd_mail == <<"j","d","@","x",".","o","r","g">>
s_error == <<"e","r","r","o","r">>
ft_Text == <<"T","e","x","t">>
ft_Tx == <<"T","x">>
ft_CheckBox == <<"C","h","e","c","k","B","o","x">>
ft_Btn == <<"B","t","n">>
ft_ComboBox == <<"C","o","m","b","o","B","o","x">>
ft_Choice == <<"C","h","o","i","c","e">>
ft_Ch == <<"C","h">>
ft_Sig == <<"S","i","g">>
ft_RadioButton == <<"R","a","d","i","o","B","u","t","t","o","n">>
ft_ListBox == <<"L","i","s","t","B","o","x">>
ft_text_lower == <<"t","e","x","t">>

\* a line without a "bbox" key, a widget without a rectangle
NoBBox == <<>>
NoRect == <<>>

Line(bbox, spans) == [bbox |-> bbox, spans |-> spans]

L_title      == Line(<<72, 10, 300, 22>>, << s_APPLICATION_FORM >>)
L_name       == Line(<<72, 50, 120, 62>>, << s_Name_colon >>)
L_john       == Line(<<130, 70, 200, 82>>, << s_John_Doe >>)
L_ssn        == Line(<<72, 90, 200, 102>>, << s_SSN_colon, s_ssn_number >>)
L_sig        == Line(<<72, 130, 300, 142>>, << s_Signature_line >>)
L_blank      == Line(<<72, 200, 80, 212>>, << s_two_spaces, <<>> >>)
L_no_spans   == Line(<<72, 220, 72, 232>>, << >>)
L_name_space == Line(<<72, 240, 120, 252>>, << s_Name_colon, <<>> >>)
L_no_bbox    == Line(NoBBox, << s_John_Doe >>)

\* block["type"] is 0 for a text block and 1 for an image block, which has no lines
Block(type, lines) == [type |-> type, lines |-> lines]

B_image == Block(1, << >>)
B_head  == Block(0, << L_title >>)
B_form  == Block(0, << L_name, L_john >>)
B_ssn   == Block(0, << L_ssn, L_sig >>)
B_space == Block(0, << L_blank, L_name_space, L_no_spans, L_no_bbox >>)

Widget(rect, name, value, type) ==
    [rect |-> rect, field_name |-> name, field_value |-> value, field_type_string |-> type]

\* the field_type_string values: the eight of the mapping, three others, "" and None
FieldTypes ==
    { PyStr(ft_Text), PyStr(ft_Tx), PyStr(ft_CheckBox), PyStr(ft_Btn), PyStr(ft_ComboBox),
      PyStr(ft_Choice), PyStr(ft_Ch), PyStr(ft_Sig), PyStr(ft_RadioButton),
      PyStr(ft_ListBox), PyStr(ft_text_lower), PyStr(<<>>), PyNone }

W_typed(type) == Widget(<<72, 300, 200, 320>>, PyStr(s_city), PyNone, type)
W_no_rect     == Widget(NoRect, PyStr(s_city), PyStr(s_John_Doe), PyStr(ft_Text))
W_agree       == Widget(<<72, 400, 84, 412>>, PyStr(s_agree), PyBool(TRUE), PyStr(ft_Btn))
W_email       == Widget(<<72, 350, 200, 370>>, PyStr(s_email), PyStr(s_jd_mail), PyStr(ft_Tx))
W_anonymous   == Widget(<<72, 450, 200, 470>>, PyNone, PyStr(<<>>), PyStr(ft_Sig))

Page(width, height, blocks, widgets) ==
    [width |-> width, height |-> height, blocks |-> blocks, widgets |-> widgets]

BlockSeqs ==
    { << >>,
      << B_image, B_space >>,
      << B_head, B_form, B_ssn >>,
      << B_ssn, B_image, B_space, B_head >> }

WidgetSeqs ==
    { << >>,
      << W_no_rect, W_agree >>,
      << W_email, W_no_rect, W_anonymous >> }

\* US Letter pages with any of the block and widget lists
GeneralPages == { Page(612, 792, bs, ws) : bs \in BlockSeqs, ws \in WidgetSeqs }

\* A4 pages holding one widget of one field type
TypePages == { Page(595, 842, << >>, << W_typed(t) >>) : t \in FieldTypes }

\* the number of pages of the longest document
MaxPages == 2

RECURSIVE SeqsUpTo(_, _)
SeqsUpTo(S, n) ==
    IF n = 0 THEN { << >> }
    ELSE LET shorter == SeqsUpTo(S, n - 1)
         IN  shorter \cup { Append(q, x) : q \in shorter, x \in S }

Docs == SeqsUpTo(GeneralPages, MaxPages) \cup { << p >> : p \in TypePages }

\* an upload: the file name the client sent (or None) and what fitz.open finds in it
Upload(filename, readable, doc) == [filename |-> filename, readable |-> readable, doc |-> doc]

Uploads ==
    { Upload(PyStr(s_form_pdf), TRUE, d) : d \in Docs }
    \cup { Upload(PyNone, TRUE, << Page(612, 792, << B_head >>, << >>) >>) }
    \cup { Upload(f, FALSE, << >>) : f \in { PyNone, PyStr(s_form_pdf) } }

NoUpload == Upload(PyNone, FALSE, << >>)

\* str(e) of the exceptions raised under analyze_form
ErrorMessages == { << >>, s_error }

(***************************************************************************)
(* analyze_form                                                            *)
(***************************************************************************)
\* the /analyze-form requests of the service
Requests == { 1, 2 }

FormSegment(text, type, page_number, top, left, width, height, page_width, page_height, is_pii) ==
    [text |-> text, type |-> type, page_number |-> page_number, top |-> top, left |-> left,
     width |-> width, height |-> height, page_width |-> page_width,
     page_height |-> page_height, is_pii |-> is_pii]

FormAnalysisResponse(success, filename, num_pages, segs, error) ==
    [success |-> success, filename |-> filename, num_pages |-> num_pages,
     segments |-> segs, fields |-> << >>, form_type |-> PyNone, error |-> error]

NoResponse == FormAnalysisResponse(FALSE, << >>, 0, << >>, PyNone)

\* a mapping that knows only the long type names
map_widget_type_long_names(field_type) ==
    IF field_type \in { ft_Text } THEN "Form Field"
    ELSE IF field_type \in { ft_CheckBox } THEN "Checkbox"
    ELSE IF field_type \in { ft_ComboBox, ft_Choice } THEN "Dropdown"
    ELSE IF field_type = ft_Sig THEN "Signature"
    ELSE "Form Field"

\* lines 227-236: the widget type mapping
map_widget_type(field_type) ==
    IF field_type \in { ft_Text, ft_Tx } THEN "Form Field"
    ELSE IF field_type \in { ft_CheckBox, ft_Btn } THEN "Checkbox"
    ELSE IF field_type \in { ft_ComboBox, ft_Choice, ft_Ch } THEN "Dropdown"
    ELSE IF field_type = ft_Sig THEN "Signature"
    ELSE "Form Field"

\* a test that keeps whitespace-only lines
line_has_text_no_strip(line) == JoinSpace(line.spans) # << >>

\* line 204: if line_text.strip()
line_has_text(line) == Strip(JoinSpace(line.spans)) # << >>

\* line 221: if widget.rect
widget_has_rect(widget) == widget.rect # NoRect

\* a list that grows at the front
segments_insert_front(segs, seg) == << seg >> \o segs

\* lines 206 and 240: segments.append(...)
segments_append(segs, seg) == Append(segs, seg)

\* lines 201-217: the segment of one text line on a page
LineSegment(line, page, page_index) ==
    LET line_bbox == IF line.bbox = NoBBox THEN <<0, 0, 0, 0>> ELSE line.bbox
        line_text == JoinSpace(line.spans)
    IN  FormSegment(Strip(line_text),
                    classify_text_type(line_text, line_bbox, page.width, page.height),
                    page_index + 1, line_bbox[2], line_bbox[1],
                    line_bbox[3] - line_bbox[1], line_bbox[4] - line_bbox[2],
                    page.width, page.height, check_pii(line_text))

\* lines 222-251: the segment of one widget on a page
WidgetSegment(widget, page, page_index) ==
    LET field_name   == OrElse(widget.field_name, PyStr(s_Field))
        field_value  == OrElse(widget.field_value, PyStr(<<>>))
        field_type   == OrElse(widget.field_type_string, PyStr(s_Unknown))
        display_text == IF Truthy(field_value)
                        THEN Format(field_name) \o s_colon_space \o Format(field_value)
                        ELSE Format(field_name)
    IN  FormSegment(display_text, map_widget_type(field_type.s), page_index + 1,
                    widget.rect[2], widget.rect[1], widget.rect[3] - widget.rect[1],
                    widget.rect[4] - widget.rect[2], page.width, page.height,
                    check_pii(display_text))

VARIABLES
    pc,          \* where each request is in analyze_form
    file,        \* the upload of each request
    tmp_file,    \* whether the request's temporary file is on disk
    doc_open,    \* whether the request's fitz document is open
    segments,    \* the local list segments
    page_num,    \* the loop variable page_num
    block_i,     \* the position of the block loop on the page (1-based)
    line_i,      \* the position of the line loop in the block (1-based)
    widget_i,    \* the position of the widget loop on the page (1-based)
    response,    \* what the request returned
    origin,      \* where each element of segments came from (history)
    raised_at    \* the step at which an exception was raised, or "none" (history)

analyze_vars ==
    <<pc, file, tmp_file, doc_open, segments, page_num, block_i, line_i, widget_i,
      response, origin, raised_at>>

VARIABLES
    store_pc,            \* where the request is in store_embeddings
    store_request,       \* the request body, and whether Supabase is configured
    valid_segments,      \* the local list valid_segments
    store_i,             \* the loop variable i, the start of the batch
    total_stored,        \* the local counter total_stored
    embeddings,          \* the embeddings of the batch at hand
    segment_embeddings,  \* the rows of the table segment_embeddings
    store_response       \* what store_embeddings returned

store_vars ==
    <<store_pc, store_request, valid_segments, store_i, total_stored, embeddings,
      segment_embeddings, store_response>>

all_vars == <<call, pii, grp, analyze_vars, store_vars>>

\* the steps inside the try block
TryBody ==
    { "import", "read", "create_tmp", "write_tmp", "open", "page", "lines", "widgets",
      "close", "unlink", "return" }

\* an except clause that hands back what was collected
on_exception_partial(r, e) ==
    FormAnalysisResponse(FALSE, OrElse(file[r].filename, PyStr(s_file_pdf)).s,
                         Len(segments[r]), segments[r], PyStr(e))

\* lines 264-272: the except clause
on_exception(r, e) ==
    FormAnalysisResponse(FALSE, OrElse(file[r].filename, PyStr(s_file_pdf)).s,
                         0, << >>, PyStr(e))

\* a response built from one segment list that all requests fill
on_success_shared(r) ==
    FormAnalysisResponse(TRUE, OrElse(file[r].filename, PyStr(s_file_pdf)).s,
                         Len(file[r].doc), segments[1] \o segments[2], PyNone)

\* lines 257-263: the response of a completed walk
on_success(r) ==
    FormAnalysisResponse(TRUE, OrElse(file[r].filename, PyStr(s_file_pdf)).s,
                         Len(file[r].doc), segments[r], PyNone)

Goto(r, label) == pc' = [pc EXCEPT ![r] = label]

\* line 179-180: import fitz, tempfile
AF_Import(r) ==
    /\ pc[r] = "import"
    /\ Goto(r, "read")
    /\ UNCHANGED <<file, tmp_file, doc_open, segments, page_num, block_i, line_i,
                   widget_i, response, origin, raised_at>>
    /\ UNCHANGED <<call, pii, grp, store_vars>>

\* line 182: content = await file.read()
AF_Read(r) ==
    /\ pc[r] = "read"
    /\ Goto(r, "create_tmp")
    /\ UNCHANGED <<file, tmp_file, doc_open, segments, page_num, block_i, line_i,
                   widget_i, response, origin, raised_at>>
    /\ UNCHANGED <<call, pii, grp, store_vars>>

\* line 184: NamedTemporaryFile(suffix='.pdf', delete=False) creates the file
AF_CreateTmp(r) ==
    /\ pc[r] = "create_tmp"
    /\ tmp_file' = [tmp_file EXCEPT ![r] = TRUE]
    /\ Goto(r, "write_tmp")
    /\ UNCHANGED <<file, doc_open, segments, page_num, block_i, line_i, widget_i,
                   response, origin, raised_at>>
    /\ UNCHANGED <<call, pii, grp, store_vars>>

\* lines 185-186: tmp.write(content); tmp_path = tmp.name
AF_WriteTmp(r) ==
    /\ pc[r] = "write_tmp"
    /\ Goto(r, "open")
    /\ UNCHANGED <<file, tmp_file, doc_open, segments, page_num, block_i, line_i,
                   widget_i, response, origin, raised_at>>
    /\ UNCHANGED <<call, pii, grp, store_vars>>

\* lines 188-189: doc = fitz.open(tmp_path); segments = []
AF_Open(r) ==
    /\ pc[r] = "open"
    /\ file[r].readable
    /\ doc_open' = [doc_open EXCEPT ![r] = TRUE]
    /\ segments' = [segments EXCEPT ![r] = << >>]
    /\ page_num' = [page_num EXCEPT ![r] = 0]
    /\ Goto(r, "page")
    /\ UNCHANGED <<file, tmp_file, block_i, line_i, widget_i, response, origin, raised_at>>
    /\ UNCHANGED <<call, pii, grp, store_vars>>

\* lines 191-197: the next page of range(len(doc)), its size and its blocks
AF_Page(r) ==
    /\ pc[r] = "page"
    /\ page_num[r] < Len(file[r].doc)
    /\ block_i' = [block_i EXCEPT ![r] = 1]
    /\ line_i' = [line_i EXCEPT ![r] = 1]
    /\ Goto(r, "lines")
    /\ UNCHANGED <<file, tmp_file, doc_open, segments, page_num, widget_i, response,
                   origin, raised_at>>
    /\ UNCHANGED <<call, pii, grp, store_vars>>

CurrentPage(r) == file[r].doc[page_num[r] + 1]

\* lines 197-200: a block that is no text block, or whose lines are exhausted
AF_NextBlock(r) ==
    /\ pc[r] = "lines"
    /\ block_i[r] <= Len(CurrentPage(r).blocks)
    /\ LET block == CurrentPage(r).blocks[block_i[r]]
       IN  block.type # 0 \/ line_i[r] > Len(block.lines)
    /\ block_i' = [block_i EXCEPT ![r] = @ + 1]
    /\ line_i' = [line_i EXCEPT ![r] = 1]
    /\ UNCHANGED <<pc, file, tmp_file, doc_open, segments, page_num, widget_i, response,
                   origin, raised_at>>
    /\ UNCHANGED <<call, pii, grp, store_vars>>

\* lines 200-217: one line of a text block
AF_Line(r) ==
    /\ pc[r] = "lines"
    /\ block_i[r] <= Len(CurrentPage(r).blocks)
    /\ LET block == CurrentPage(r).blocks[block_i[r]]
       IN  /\ block.type = 0
           /\ line_i[r] <= Len(block.lines)
           /\ LET line == block.lines[line_i[r]]
              IN  IF line_has_text(line)
                  THEN /\ segments' = [segments EXCEPT ![r] =
                              segments_append(@, LineSegment(line, CurrentPage(r), page_num[r]))]
                       /\ origin' = [origin EXCEPT ![r] =
                              Append(@, [kind |-> "line", page |-> page_num[r] + 1,
                                         block |-> block_i[r], item |-> line_i[r]])]
                  ELSE UNCHANGED <<segments, origin>>
    /\ line_i' = [line_i EXCEPT ![r] = @ + 1]
    /\ UNCHANGED <<pc, file, tmp_file, doc_open, page_num, block_i, widget_i, response,
                   raised_at>>
    /\ UNCHANGED <<call, pii, grp, store_vars>>

\* line 220: the blocks are exhausted, page.widgets() starts
AF_Widgets(r) ==
    /\ pc[r] = "lines"
    /\ block_i[r] > Len(CurrentPage(r).blocks)
    /\ widget_i' = [widget_i EXCEPT ![r] = 1]
    /\ Goto(r, "widgets")
    /\ UNCHANGED <<file, tmp_file, doc_open, segments, page_num, block_i, line_i,
                   response, origin, raised_at>>
    /\ UNCHANGED <<call, pii, grp, store_vars>>

\* lines 220-251: one widget of the page
AF_Widget(r) ==
    /\ pc[r] = "widgets"
    /\ widget_i[r] <= Len(CurrentPage(r).widgets)
    /\ LET widget == CurrentPage(r).widgets[widget_i[r]]
       IN  IF widget_has_rect(widget)
           THEN /\ segments' = [segments EXCEPT ![r] =
                       segments_append(@, WidgetSegment(widget, CurrentPage(r), page_num[r]))]
                /\ origin' = [origin EXCEPT ![r] =
                       Append(@, [kind |-> "widget", page |-> page_num[r] + 1,
                                  block |-> 0, item |-> widget_i[r]])]
           ELSE UNCHANGED <<segments, origin>>
    /\ widget_i' = [widget_i EXCEPT ![r] = @ + 1]
    /\ UNCHANGED <<pc, file, tmp_file, doc_open, page_num, block_i, line_i, response,
                   raised_at>>
    /\ UNCHANGED <<call, pii, grp, store_vars>>

\* line 191: the widgets are exhausted, the page loop advances
AF_PageDone(r) ==
    /\ pc[r] = "widgets"
    /\ widget_i[r] > Len(CurrentPage(r).widgets)
    /\ page_num' = [page_num EXCEPT ![r] = @ + 1]
    /\ Goto(r, "page")
    /\ UNCHANGED <<file, tmp_file, doc_open, segments, block_i, line_i, widget_i,
                   response, origin, raised_at>>
    /\ UNCHANGED <<call, pii, grp, store_vars>>

\* line 253: the page loop is over; num_pages = len(doc)
AF_NumPages(r) ==
    /\ pc[r] = "page"
    /\ page_num[r] >= Len(file[r].doc)
    /\ Goto(r, "close")
    /\ UNCHANGED <<file, tmp_file, doc_open, segments, page_num, block_i, line_i,
                   widget_i, response, origin, raised_at>>
    /\ UNCHANGED <<call, pii, grp, store_vars>>

\* line 254: doc.close()
AF_Close(r) ==
    /\ pc[r] = "close"
    /\ doc_open' = [doc_open EXCEPT ![r] = FALSE]
    /\ Goto(r, "unlink")
    /\ UNCHANGED <<file, tmp_file, segments, page_num, block_i, line_i, widget_i,
                   response, origin, raised_at>>
    /\ UNCHANGED <<call, pii, grp, store_vars>>

\* line 255: os.unlink(tmp_path)
AF_Unlink(r) ==
    /\ pc[r] = "unlink"
    /\ tmp_file' = [tmp_file EXCEPT ![r] = FALSE]
    /\ Goto(r, "return")
    /\ UNCHANGED <<file, doc_open, segments, page_num, block_i, line_i, widget_i,
                   response, origin, raised_at>>
    /\ UNCHANGED <<call, pii, grp, store_vars>>

\* lines 257-263: return FormAnalysisResponse(success=True, ...)
AF_Return(r) ==
    /\ pc[r] = "return"
    /\ response' = [response EXCEPT ![r] = on_success(r)]
    /\ Goto(r, "done")
    /\ UNCHANGED <<file, tmp_file, doc_open, segments, page_num, block_i, line_i,
                   widget_i, origin, raised_at>>
    /\ UNCHANGED <<call, pii, grp, store_vars>>

\* lines 264-272: a statement of the try block raises an Exception e; the except
\* clause returns the failure response
AF_Raise(r) ==
    /\ pc[r] \in TryBody
    /\ \E e \in ErrorMessages :
         response' = [response EXCEPT ![r] = on_exception(r, e)]
    /\ raised_at' = [raised_at EXCEPT ![r] = pc[r]]
    /\ Goto(r, "done")
    /\ UNCHANGED <<file, tmp_file, doc_open, segments, page_num, block_i, line_i,
                   widget_i, origin>>
    /\ UNCHANGED <<call, pii, grp, store_vars>>

analyze_form(r) ==
    \/ AF_Import(r)
    \/ AF_Read(r)
    \/ AF_CreateTmp(r)
    \/ AF_WriteTmp(r)
    \/ AF_Open(r)
    \/ AF_Page(r)
    \/ AF_NextBlock(r)
    \/ AF_Line(r)
    \/ AF_Widgets(r)
    \/ AF_Widget(r)
    \/ AF_PageDone(r)
    \/ AF_NumPages(r)
    \/ AF_Close(r)
    \/ AF_Unlink(r)
    \/ AF_Return(r)
    \/ AF_Raise(r)

(***************************************************************************)
(* group_segments_by_page, group_segments_by_section                       *)
(***************************************************************************)
s_Section_sp == <<"S","e","c","t","i","o","n"," ">>
Digits == <<"0","1","2","3","4","5","6","7","8","9">>

\* str(n) for n >= 0
RECURSIVE IntToStr(_)
IntToStr(n) ==
    IF n < 10 THEN << Digits[n + 1] >>
    ELSE IntToStr(n \div 10) \o << Digits[(n % 10) + 1] >>

\* str.isupper(): a cased character, and no lower-case one
IsUpper(s) ==
    /\ \E i \in 1..Len(s) : s[i] # LowerChar(s[i])
    /\ \A i \in 1..Len(s) : s[i] = UpperChar(s[i])

\* s.replace(':', '')
RemoveColons(s) == SelectSeq(s, LAMBDA c : c # ":")

\* s[:n]
Prefix(s, n) == SubSeq(s, 1, IF Len(s) < n THEN Len(s) ELSE n)

\* a difference taken with its sign
Abs_signed(x) == x

\* abs(x)
Abs(x) == IF x < 0 THEN -x ELSE x

\* list(enumerate(segments)): pairs <<index, segment>>, the index 0-based
Enumerate(segs) == [i \in 1..Len(segs) |-> << i - 1, segs[i] >>]

\* a grouping by page that keeps one pair per page
group_segments_by_page_last_only(segs) ==
    [p \in { segs[i].page_number : i \in 1..Len(segs) } |->
        LET on_page == SelectSeq(Enumerate(segs), LAMBDA x : x[2].page_number = p)
        IN  << on_page[Len(on_page)] >>]

\* lines 386-394: the dict page_number -> list of (idx, seg), filled in list order
RECURSIVE group_segments_by_page_upto(_, _)
group_segments_by_page_upto(segs, n) ==
    IF n = 0 THEN << >>
    ELSE LET pages == group_segments_by_page_upto(segs, n - 1)
             seg == segs[n]
             page_num_ == seg.page_number
             found == IF page_num_ \in DOMAIN pages THEN pages[page_num_] ELSE << >>
         IN  [p \in (DOMAIN pages) \cup { page_num_ } |->
                 IF p = page_num_ THEN Append(found, << n - 1, seg >>) ELSE pages[p]]

group_segments_by_page(segs) == group_segments_by_page_upto(segs, Len(segs))

\* the sort key (page_number, top) of line 413, compared as Python compares tuples
KeyLessEq(a, b) ==
    \/ a.page_number < b.page_number
    \/ a.page_number = b.page_number /\ a.top <= b.top

\* a sort that forgets the page number
sort_by_page_and_top_ignoring_page(indexed) ==
    LET TopLessEq(a, b) == a.top <= b.top
        Ins(sorted, x) ==
            LET k == Cardinality({ j \in 1..Len(sorted) : TopLessEq(sorted[j][2], x[2]) })
            IN  SubSeq(sorted, 1, k) \o << x >> \o SubSeq(sorted, k + 1, Len(sorted))
        F[n \in 0..Len(indexed)] == IF n = 0 THEN << >> ELSE Ins(F[n - 1], indexed[n])
    IN  F[Len(indexed)]

\* line 413: list.sort(key=(page_number, top)), a stable sort
sort_by_page_and_top(indexed) ==
    LET Ins(sorted, x) ==
            LET k == Cardinality({ j \in 1..Len(sorted) : KeyLessEq(sorted[j][2], x[2]) })
            IN  SubSeq(sorted, 1, k) \o << x >> \o SubSeq(sorted, k + 1, Len(sorted))
        F[n \in 0..Len(indexed)] == IF n = 0 THEN << >> ELSE Ins(F[n - 1], indexed[n])
    IN  F[Len(indexed)]

\* a grouping that sorts the caller's list itself
segments_after_grouping_in_place(segs) ==
    LET sorted == sort_by_page_and_top(Enumerate(segs))
    IN  [i \in 1..Len(segs) |-> sorted[i][2]]

\* lines 388 and 412-413: the caller's list after the two calls. Both functions
\* only iterate it; the sort of line 413 is applied to indexed_segments, the new
\* list built at line 412
segments_after_grouping(segs) == segs

\* a title generator that numbers the sections from 0
_generate_section_title_zero_based(segs, section_num) ==
    LET first3 == Prefix(segs, 3)
        Hit(seg) == seg.type \in { "Header", "Title" } \/ EndsWith(Strip(seg.text), ch_colon)
        hits == { i \in 1..Len(first3) : Hit(first3[i]) }
    IN  IF hits = {} THEN s_Section_sp \o IntToStr(section_num - 1)
        ELSE LET seg == first3[CHOOSE i \in hits : \A j \in hits : i <= j]
             IN  IF seg.type \in { "Header", "Title" } THEN Prefix(seg.text, 50)
                 ELSE Prefix(Strip(RemoveColons(seg.text)), 50)

\* lines 449-459
_generate_section_title(segs, section_num) ==
    LET first3 == Prefix(segs, 3)
        Hit(seg) == seg.type \in { "Header", "Title" } \/ EndsWith(Strip(seg.text), ch_colon)
        hits == { i \in 1..Len(first3) : Hit(first3[i]) }
    IN  IF hits = {} THEN s_Section_sp \o IntToStr(section_num)
        ELSE LET seg == first3[CHOOSE i \in hits : \A j \in hits : i <= j]
             IN  IF seg.type \in { "Header", "Title" } THEN Prefix(seg.text, 50)
                 ELSE Prefix(Strip(RemoveColons(seg.text)), 50)

\* a header test that looks at the type only
is_header_types_only(seg) == seg.type \in { "Header", "Title" }

\* lines 421-423
is_header(seg) ==
    \/ seg.type \in { "Header", "Title" }
    \/ IsUpper(seg.text)
    \/ EndsWith(Strip(seg.text), ch_colon)

\* a size test that lets a section grow to 16
section_too_large_off_by_one(current) == Len(current) > 15

\* line 426
section_too_large(current) == Len(current) >= 15

\* the section (title, list(zip(indices, segments))) closed at lines 430-432, 442-444
Section(current, section_counter) ==
    [title |-> _generate_section_title([i \in 1..Len(current) |-> current[i][2]], section_counter),
     members |-> current]

\* the state of the sweep before the first segment (lines 405-409)
SweepStart ==
    [sections |-> << >>, current |-> << >>, has_last_y |-> FALSE, last_y |-> 0,
     section_counter |-> 0]

\* lines 415-438: one iteration of the sweep
SweepStep(st, x) ==
    LET seg == x[2]
        vertical_gap == st.has_last_y /\ Abs(seg.top - st.last_y) > 50
        close == /\ \/ vertical_gap
                    \/ section_too_large(st.current)
                    \/ is_header(seg) /\ st.current # << >>
                 /\ st.current # << >>
    IN  [sections |-> IF close
                      THEN Append(st.sections, Section(st.current, st.section_counter + 1))
                      ELSE st.sections,
         current |-> IF close THEN << x >> ELSE Append(st.current, x),
         has_last_y |-> TRUE,
         last_y |-> seg.top,
         section_counter |-> IF close THEN st.section_counter + 1 ELSE st.section_counter]

\* lines 397-446
group_segments_by_section(segs) ==
    IF segs = << >> THEN << >>
    ELSE LET sorted == sort_by_page_and_top(Enumerate(segs))
             F[n \in 0..Len(sorted)] ==
                 IF n = 0 THEN SweepStart ELSE SweepStep(F[n - 1], sorted[n])
             end == F[Len(sorted)]
         IN  IF end.current # << >>
             THEN Append(end.sections, Section(end.current, end.section_counter + 1))
             ELSE end.sections

(***************************************************************************)
(* Inputs of the grouping functions                                        *)
(***************************************************************************)
s_x == <<"x">>
s_NAME == <<"N","A","M","E">>
s_Part_1 == <<"P","a","r","t"," ","1">>

\* a colon-terminated text of more than 50 characters
s_long_label == Pad(55) \o ch_colon

\* a segment of a US Letter page; only text, type, page_number and top are read
Seg(text, type, page_number, top) ==
    FormSegment(text, type, page_number, top, 72, 100, 12, 612, 792, FALSE)

\* the segments the short lists are made of
GroupSegments ==
    { Seg(s_x, "Text", 1, 10), Seg(s_x, "Text", 1, 61), Seg(s_x, "Text", 2, 10),
      Seg(s_John_Doe, "Text", 1, 40), Seg(s_Name_colon, "Label", 1, 40),
      Seg(s_NAME, "Text", 2, 30), Seg(s_Part_1, "Section Header", 1, 20),
      Seg(s_Part_1, "Title", 2, 60), Seg(s_Name_colon, "Title", 1, 30),
      Seg(s_long_label, "Text", 1, 30) }

\* the length of the longest short list
MaxShort == 3

\* the length of the longest long list: more than one full section
MaxLong == 17

\* long lists of close segments: equal tops, rising tops, falling tops, two pages,
\* and a colon-terminated segment every seventh place
LongPatterns == { "equal", "rising", "falling", "pages", "labels" }

LongSegment(pattern, i) ==
    CASE pattern = "equal"   -> Seg(s_x, "Text", 1, 10)
      [] pattern = "rising"  -> Seg(s_x, "Text", 1, 10 + 3 * i)
      [] pattern = "falling" -> Seg(s_x, "Text", 1, 500 - 3 * i)
      [] pattern = "pages"   -> Seg(s_x, "Text", 1 + (i % 2), 10 + i)
      [] pattern = "labels"  -> IF i % 7 = 0 THEN Seg(s_Name_colon, "Label", 1, 10 + i)
                                ELSE Seg(s_x, "Text", 1, 10 + i)

GroupInputs ==
    SeqsUpTo(GroupSegments, MaxShort)
    \cup { [i \in 1..n |-> LongSegment(pat, i)] : n \in (MaxLong - 3)..MaxLong, pat \in LongPatterns }

NoGroup ==
    [made |-> FALSE, segments |-> << >>, segments_after |-> << >>, pages |-> << >>,
     sections |-> << >>]

(***************************************************************************)
(* store_embeddings                                                        *)
(***************************************************************************)
\* line 755: batch_size = 100
batch_size == 100

s_not_configured == <<"S","u","p","a","b","a","s","e"," ","n","o","t"," ","c","o","n","f","i","g","u","r","e","d","."," ","S","e","t"," ","S","U","P","A","B","A","S","E","_","U","R","L"," ","a","n","d"," ","S","U","P","A","B","A","S","E","_","S","E","R","V","I","C","E","_","K","E","Y",".">>

\* EmbeddingSegment (lines 69-73)
EmbeddingSegment(text, type, page_number, is_pii) ==
    [text |-> text, type |-> type, page_number |-> page_number, is_pii |-> is_pii]

\* StoreEmbeddingsRequest (lines 75-80), with whether get_supabase() finds its
\* configuration
StoreEmbeddingsRequest(configured, segs) ==
    [configured |-> configured, user_id |-> "u1", project_id |-> "p1", form_id |-> "f1",
     form_name |-> "form.pdf", segments |-> segs]

\* StoreEmbeddingsResponse (lines 82-85)
StoreEmbeddingsResponse(success, stored_count, error) ==
    [success |-> success, stored_count |-> stored_count, error |-> error]

NoStoreRequest == StoreEmbeddingsRequest(FALSE, << >>)

NoStoreResponse == StoreEmbeddingsResponse(FALSE, 0, PyNone)

\* line 750: [s for s in request.segments if len(s.text.strip()) > 10]
filter_valid_segments(segs) == SelectSeq(segs, LAMBDA seg : Len(Strip(seg.text)) > 10)

\* s[i:i + n], i 0-based
Slice(seq, i, n) ==
    LET last == IF i + n < Len(seq) THEN i + n ELSE Len(seq)
    IN  [k \in 1..(last - i) |-> seq[i + k]]

\* lines 104-126: one embedding per text; an embedding is modelled by the
\* position of its text
generate_embeddings(texts) == [k \in 1..Len(texts) |-> k]

\* lines 767-779: the records of zip(batch, embeddings)
records_of(request, batch, embs) ==
    [k \in 1..(IF Len(batch) < Len(embs) THEN Len(batch) ELSE Len(embs)) |->
        [user_id |-> request.user_id, project_id |-> request.project_id,
         form_id |-> request.form_id, form_name |-> request.form_name,
         segment_text |-> batch[k].text, segment_type |-> batch[k].type,
         page_number |-> batch[k].page_number, is_pii |-> batch[k].is_pii,
         embedding |-> embs[k]]]

InitStoreIdle ==
    /\ store_pc = "absent"
    /\ store_request = NoStoreRequest
    /\ valid_segments = << >>
    /\ store_i = 0
    /\ total_stored = 0
    /\ embeddings = << >>
    /\ segment_embeddings = << >>
    /\ store_response = NoStoreResponse

\* lines 741-747: get_supabase() returns None
SE_NotConfigured ==
    /\ store_pc = "start"
    /\ ~store_request.configured
    /\ store_response' = StoreEmbeddingsResponse(FALSE, 0, PyStr(s_not_configured))
    /\ store_pc' = "done"
    /\ UNCHANGED <<store_request, valid_segments, store_i, total_stored, embeddings,
                   segment_embeddings>>
    /\ UNCHANGED <<call, pii, grp, analyze_vars>>

\* lines 749-756: the short segments are filtered out; with none left the handler
\* returns success with stored_count 0
SE_Filter ==
    /\ store_pc = "start"
    /\ store_request.configured
    /\ valid_segments' = filter_valid_segments(store_request.segments)
    /\ IF valid_segments' = << >>
       THEN /\ store_response' = StoreEmbeddingsResponse(TRUE, 0, PyNone)
            /\ store_pc' = "done"
       ELSE /\ store_pc' = "batch"
            /\ UNCHANGED store_response
    /\ store_i' = 0
    /\ total_stored' = 0
    /\ UNCHANGED <<store_request, embeddings, segment_embeddings>>
    /\ UNCHANGED <<call, pii, grp, analyze_vars>>

\* lines 758-763: generate_embeddings returns the embeddings of the batch
SE_EmbedOk ==
    /\ store_pc = "batch"
    /\ store_i < Len(valid_segments)
    /\ LET batch == Slice(valid_segments, store_i, batch_size)
           texts == [k \in 1..Len(batch) |-> batch[k].text]
       IN  embeddings' = generate_embeddings(texts)
    /\ store_pc' = "insert"
    /\ UNCHANGED <<store_request, valid_segments, store_i, total_stored,
                   segment_embeddings, store_response>>
    /\ UNCHANGED <<call, pii, grp, analyze_vars>>

\* lines 762-766: generate_embeddings raises; the batch is skipped
SE_EmbedFail ==
    /\ store_pc = "batch"
    /\ store_i < Len(valid_segments)
    /\ store_i' = store_i + batch_size
    /\ UNCHANGED <<store_pc, store_request, valid_segments, total_stored, embeddings,
                   segment_embeddings, store_response>>
    /\ UNCHANGED <<call, pii, grp, analyze_vars>>

\* lines 781-785: the insert of the batch's records succeeds
SE_InsertOk ==
    /\ store_pc = "insert"
    /\ LET batch == Slice(valid_segments, store_i, batch_size)
           records == records_of(store_request, batch, embeddings)
       IN  /\ segment_embeddings' = segment_embeddings \o records
           /\ total_stored' = total_stored + Len(records)
    /\ store_i' = store_i + batch_size
    /\ store_pc' = "batch"
    /\ UNCHANGED <<store_request, valid_segments, embeddings, store_response>>
    /\ UNCHANGED <<call, pii, grp, analyze_vars>>

\* lines 786-789 and 793-795: the insert raises; the exception is raised again and
\* the outer except clause returns the failure response
SE_InsertFail ==
    /\ store_pc = "insert"
    /\ \E e \in ErrorMessages :
         store_response' = StoreEmbeddingsResponse(FALSE, 0, PyStr(e))
    /\ store_pc' = "done"
    /\ UNCHANGED <<store_request, valid_segments, store_i, total_stored, embeddings,
                   segment_embeddings>>
    /\ UNCHANGED <<call, pii, grp, analyze_vars>>

\* line 791: the loop is over
SE_Return ==
    /\ store_pc = "batch"
    /\ store_i >= Len(valid_segments)
    /\ store_response' = StoreEmbeddingsResponse(TRUE, total_stored, PyNone)
    /\ store_pc' = "done"
    /\ UNCHANGED <<store_request, valid_segments, store_i, total_stored, embeddings,
                   segment_embeddings>>
    /\ UNCHANGED <<call, pii, grp, analyze_vars>>

\* lines 734-795
store_embeddings ==
    \/ SE_NotConfigured
    \/ SE_Filter
    \/ SE_EmbedOk
    \/ SE_EmbedFail
    \/ SE_InsertOk
    \/ SE_InsertFail
    \/ SE_Return

(***************************************************************************)
(* Inputs of store_embeddings                                              *)
(***************************************************************************)
\* the number of batches of the longest request
MaxBatches == 3

\* texts of 11 characters, of 10, and of 10 between blanks
t_stored == Pad(11)
t_too_short == Pad(10)
t_blank_padded == <<" ", " ">> \o Pad(10) \o <<" ">>

StorePatterns == { "valid", "short", "mixed" }

StoreSegment(pattern, i) ==
    CASE pattern = "valid" -> EmbeddingSegment(t_stored, "Text", 1, FALSE)
      [] pattern = "short" -> EmbeddingSegment(t_too_short, "Label", 1, FALSE)
      [] pattern = "mixed" -> IF i % 3 = 0 THEN EmbeddingSegment(t_blank_padded, "Text", 1, FALSE)
                              ELSE EmbeddingSegment(t_stored, "Text", 1 + (i % 2), TRUE)

\* list lengths around the batch size
StoreSizes ==
    { 0, 1, batch_size, batch_size + 1, (MaxBatches - 1) * batch_size + 1 }

StoreRequests ==
    { StoreEmbeddingsRequest(TRUE, [i \in 1..n |-> StoreSegment(pat, i)]) :
        n \in StoreSizes, pat \in StorePatterns }
    \cup { StoreEmbeddingsRequest(FALSE, [i \in 1..1 |-> StoreSegment("valid", i)]) }

(***************************************************************************)
(* Specifications                                                          *)
(***************************************************************************)
vars == all_vars

\* no request has arrived
InitAnalyzeIdle ==
    /\ pc = [r \in Requests |-> "absent"]
    /\ file = [r \in Requests |-> NoUpload]
    /\ tmp_file = [r \in Requests |-> FALSE]
    /\ doc_open = [r \in Requests |-> FALSE]
    /\ segments = [r \in Requests |-> << >>]
    /\ page_num = [r \in Requests |-> 0]
    /\ block_i = [r \in Requests |-> 1]
    /\ line_i = [r \in Requests |-> 1]
    /\ widget_i = [r \in Requests |-> 1]
    /\ response = [r \in Requests |-> NoResponse]
    /\ origin = [r \in Requests |-> << >>]
    /\ raised_at = [r \in Requests |-> "none"]

\* one request has arrived with an upload
Init ==
    /\ call = NoCall
    /\ pii = NoPii
    /\ grp = NoGroup
    /\ InitStoreIdle
    /\ \E u \in Uploads :
         /\ pc = [r \in Requests |-> IF r = 1 THEN "import" ELSE "absent"]
         /\ file = [r \in Requests |-> IF r = 1 THEN u ELSE NoUpload]
    /\ tmp_file = [r \in Requests |-> FALSE]
    /\ doc_open = [r \in Requests |-> FALSE]
    /\ segments = [r \in Requests |-> << >>]
    /\ page_num = [r \in Requests |-> 0]
    /\ block_i = [r \in Requests |-> 1]
    /\ line_i = [r \in Requests |-> 1]
    /\ widget_i = [r \in Requests |-> 1]
    /\ response = [r \in Requests |-> NoResponse]
    /\ origin = [r \in Requests |-> << >>]
    /\ raised_at = [r \in Requests |-> "none"]

Next == \E r \in Requests : analyze_form(r)

Spec == Init /\ [][Next]_vars

\* the documents of the concurrent requests
ConcurrentDocs ==
    { << Page(612, 792, << B_head, B_form, B_ssn >>, << >>) >>,
      << Page(612, 792, << >>, << W_no_rect, W_agree >>) >>,
      << Page(612, 792, << B_image, B_space >>, << W_email, W_no_rect, W_anonymous >>),
         Page(612, 792, << B_head >>, << >>) >> }

ConcurrentUploads ==
    { Upload(PyStr(s_form_pdf), TRUE, d) : d \in ConcurrentDocs }
    \cup { Upload(PyNone, FALSE, << >>) }

\* two requests have arrived, each with an upload of its own; every coroutine has
\* its own locals, so each variable of analyze_form is held per request
InitConcurrent ==
    /\ call = NoCall
    /\ pii = NoPii
    /\ grp = NoGroup
    /\ InitStoreIdle
    /\ \E u1 \in ConcurrentUploads : \E u2 \in ConcurrentUploads \ { u1 } :
         file = [r \in Requests |-> IF r = 1 THEN u1 ELSE u2]
    /\ pc = [r \in Requests |-> "import"]
    /\ tmp_file = [r \in Requests |-> FALSE]
    /\ doc_open = [r \in Requests |-> FALSE]
    /\ segments = [r \in Requests |-> << >>]
    /\ page_num = [r \in Requests |-> 0]
    /\ block_i = [r \in Requests |-> 1]
    /\ line_i = [r \in Requests |-> 1]
    /\ widget_i = [r \in Requests |-> 1]
    /\ response = [r \in Requests |-> NoResponse]
    /\ origin = [r \in Requests |-> << >>]
    /\ raised_at = [r \in Requests |-> "none"]

\* the two requests interleave at every statement, which includes every
\* interleaving at the one suspension point, await file.read() of line 182
SpecConcurrent == InitConcurrent /\ [][Next]_vars

InitPure ==
    /\ call = NoCall
    /\ pii = NoPii
    /\ grp = NoGroup
    /\ InitStoreIdle
    /\ InitAnalyzeIdle

\* classify_text_type(text, bbox, page_width, page_height) is called and returns
ClassifyCall ==
    /\ ~call.made
    /\ \E text \in ClassifyTexts, bbox \in BBoxes, page \in PageSizes :
         call' = [made |-> TRUE, text |-> text, bbox |-> bbox,
                  page_width |-> page[1], page_height |-> page[2],
                  result |-> classify_text_type(text, bbox, page[1], page[2])]
    /\ UNCHANGED <<pii, grp, analyze_vars, store_vars>>

\* the caller drops the result
ClassifyReturn ==
    /\ call.made
    /\ call' = NoCall
    /\ UNCHANGED <<pii, grp, analyze_vars, store_vars>>

NextClassify == ClassifyCall \/ ClassifyReturn

SpecClassify == InitPure /\ [][NextClassify]_vars

\* check_pii is called on a text and on a re-casing of it
PiiCall ==
    /\ ~pii.made
    /\ \E t \in PiiBaseTexts, c1 \in Casings, c2 \in Casings :
         pii' = [made |-> TRUE,
                 text |-> Recase(t, c1), result |-> check_pii(Recase(t, c1)),
                 recased |-> Recase(t, c2), result_recased |-> check_pii(Recase(t, c2))]
    /\ UNCHANGED <<call, grp, analyze_vars, store_vars>>

\* the caller drops the results
PiiReturn ==
    /\ pii.made
    /\ pii' = NoPii
    /\ UNCHANGED <<call, grp, analyze_vars, store_vars>>

NextPii == PiiCall \/ PiiReturn

SpecPii == InitPure /\ [][NextPii]_vars

\* group_segments_by_page and group_segments_by_section are called on a segment list
GroupCall ==
    /\ ~grp.made
    /\ \E segs \in GroupInputs :
         grp' = [made |-> TRUE, segments |-> segs,
                 segments_after |-> segments_after_grouping(segs),
                 pages |-> group_segments_by_page(segs),
                 sections |-> group_segments_by_section(segs)]
    /\ UNCHANGED <<call, pii, analyze_vars, store_vars>>

\* the caller drops the groupings
GroupReturn ==
    /\ grp.made
    /\ grp' = NoGroup
    /\ UNCHANGED <<call, pii, analyze_vars, store_vars>>

NextGroup == GroupCall \/ GroupReturn

SpecGroup == InitPure /\ [][NextGroup]_vars

\* one store request has arrived; the table holds no record of it
InitStore ==
    /\ call = NoCall
    /\ pii = NoPii
    /\ grp = NoGroup
    /\ InitAnalyzeIdle
    /\ store_pc = "start"
    /\ store_request \in StoreRequests
    /\ valid_segments = << >>
    /\ store_i = 0
    /\ total_stored = 0
    /\ embeddings = << >>
    /\ segment_embeddings = << >>
    /\ store_response = NoStoreResponse

NextStore == store_embeddings

SpecStore == InitStore /\ [][NextStore]_vars

(***************************************************************************)
(* Claims about classify_text_type (SpecClassify)                          *)
(***************************************************************************)
\* the segment types of the specification's closed set, as the service spells them
SegmentType ==
    { "Text", "Title", "Section Header", "Label", "Form Field", "Checkbox", "Dropdown",
      "Signature", "Instructions" }

HasSignatureWord(text) == Contains(ToLower(text), kw_signature)

\* C1 as stated: every text containing "signature" in any letter case classifies
\* as Signature, whatever its length and whatever other rule it also satisfies.
C1_SignatureFirst ==
    (call.made /\ HasSignatureWord(call.text)) => call.result = "Signature"

\* C1 amended: a text containing "signature" in any letter case classifies as
\* Signature whatever its length (ahead of Instructions and Text), unless one of the
\* three rules the classifier tests first matches it: section header, label, checkbox.
C1_SignatureAfterHeaderLabelCheckbox ==
    ( /\ call.made
      /\ HasSignatureWord(call.text)
      /\ ~IsSectionHeader(call.text, call.bbox, call.page_height)
      /\ ~IsLabel(call.text)
      /\ ~IsCheckbox(call.text) )
    => call.result = "Signature"

\* a text of more than 100 characters containing "signature" was classified Signature
C1_Witness ==
    /\ call.made
    /\ HasSignatureWord(call.text)
    /\ Len(call.text) > 100
    /\ call.result = "Signature"

\* C2: every call returns a value of the closed set of segment types; no input is
\* left unclassified.
C2_Total == call.made => call.result \in SegmentType

\* a call that no rule but the last matched returned Text
C2_Witness ==
    /\ call.made
    /\ ~IsSectionHeader(call.text, call.bbox, call.page_height)
    /\ ~IsLabel(call.text)
    /\ ~IsCheckbox(call.text)
    /\ ~IsSignature(call.text)
    /\ ~IsInstructions(call.text)
    /\ call.result = "Text"

IsLetter(c) == c # LowerChar(c) \/ c # UpperChar(c)

\* the text begins with the word yes or no, or with a box
BeginsWithCheckboxToken(text) ==
    LET t == Strip(ToLower(text))
        Word(w) == StartsWith(t, w) /\ (Len(t) = Len(w) \/ ~IsLetter(t[Len(w) + 1]))
    IN  \/ Word(tok_yes)
        \/ Word(tok_no)
        \/ StartsWith(t, tok_box_empty)
        \/ StartsWith(t, tok_box_x)
        \/ StartsWith(t, <<"U25A1">>)
        \/ StartsWith(t, tok_ballot)
        \/ StartsWith(t, tok_ballot_checked)

\* C3: a text longer than 100 characters with no signature pattern, no checkbox
\* token at its start and no header keyword classifies as Instructions, also when
\* it merely begins with the letters "no" or "yes" ("Notice ...", "Yesterday ...").
C3_LongTextIsInstructions ==
    ( /\ call.made
      /\ Len(call.text) > 100
      /\ ~IsSignature(call.text)
      /\ ~BeginsWithCheckboxToken(call.text)
      /\ ~AnyIn(HEADER_KEYWORDS, ToLower(call.text)) )
    => call.result = "Instructions"

(***************************************************************************)
(* Claims about check_pii (SpecPii)                                        *)
(***************************************************************************)
\* kw occurs in s at some offset
OccursIn(kw, s) ==
    \E off \in 0..Len(s) :
        /\ off + Len(kw) <= Len(s)
        /\ \A j \in 1..Len(kw) : s[off + j] = kw[j]

\* C4: check_pii(t) is true exactly when a keyword of the fixed list is a substring
\* of the lower-cased t; "My SSN is 123-45-6789" gives true, "The sky is blue" false.
C4_PiiIffKeyword ==
    pii.made =>
        /\ pii.result <=> (\E i \in 1..Len(PII_KEYWORDS) : OccursIn(PII_KEYWORDS[i], ToLower(pii.text)))
        /\ pii.text = ex_my_ssn => pii.result
        /\ pii.text = ex_sky => ~pii.result

\* check_pii("My SSN is 123-45-6789") returned true
C4_Witness == pii.made /\ pii.text = ex_my_ssn /\ pii.result

\* C5: check_pii gives the same answer on a text and on every re-casing of it.
C5_CaseInsensitive == pii.made => pii.result = pii.result_recased

\* "Social Security Number" and "SOCIAL SECURITY NUMBER" were both flagged
C5_Witness ==
    /\ pii.made
    /\ pii.text = ex_social
    /\ pii.recased = ToUpper(ex_social)
    /\ pii.result
    /\ pii.result_recased

\* the keywords of the specification's groups that the code's list holds
ListedAndFlagged ==
    { kw_social_security, kw_ssn, kw_driver_license, kw_passport, kw_tax_id,
      kw_date_of_birth, kw_bank_account, kw_credit_card, kw_phone, kw_email,
      kw_address, kw_salary, kw_income, kw_signature }

\* the keywords of the specification's groups that the code's list lacks
ListedNotFlagged == { sk_routing_number, sk_city, sk_state, sk_zip, sk_employer }

\* C6 as stated: a text containing any keyword the specification lists, in any
\* case, is flagged.
C6_AllListedGroupsFlagged ==
    ( /\ pii.made
      /\ \E kw \in ListedAndFlagged \cup ListedNotFlagged : OccursIn(kw, ToLower(pii.text)) )
    => pii.result

\* C6 amended: a text containing any of social security, SSN, driver license,
\* passport, tax ID, date of birth, bank account, credit card, phone, email, address,
\* salary, income or signature (any case) is flagged; routing number, city, state,
\* zip and employer are not keywords, and a text whose only listed word is one of
\* them (and that holds no "dob") is not flagged.
C6_CodeListFlagged ==
    pii.made =>
        /\ (\E kw \in ListedAndFlagged : OccursIn(kw, ToLower(pii.text))) => pii.result
        /\ ( /\ \E kw \in ListedNotFlagged : OccursIn(kw, ToLower(pii.text))
             /\ ~\E kw \in ListedAndFlagged \cup {kw_dob} : OccursIn(kw, ToLower(pii.text)) )
           => ~pii.result

\* an upper-case "PASSPORT" was flagged
C6_Witness ==
    /\ pii.made
    /\ OccursIn(ToUpper(kw_passport), pii.text)
    /\ pii.result

(***************************************************************************)
(* Claims about analyze_form (Spec)                                        *)
(***************************************************************************)
\* the widget a widget segment came from
WidgetAt(r, o) == file[r].doc[o.page].widgets[o.item]

\* the line a line segment came from
LineAt(r, o) == file[r].doc[o.page].blocks[o.block].lines[o.item]

\* the table of the specification, on the native type string (None when missing)
TableType(native) ==
    CASE native = PyStr(ft_Text) \/ native = PyStr(ft_Tx) -> "Form Field"
      [] native = PyStr(ft_CheckBox) \/ native = PyStr(ft_Btn) -> "Checkbox"
      [] native = PyStr(ft_ComboBox) \/ native = PyStr(ft_Choice) \/ native = PyStr(ft_Ch) -> "Dropdown"
      [] native = PyStr(ft_Sig) -> "Signature"
      [] OTHER -> "Form Field"

\* C7: every widget segment has the type the table gives for the widget's native
\* type string; every other string, and a missing one, gives Form Field.
C7_WidgetTypeTable ==
    \A r \in Requests : \A k \in 1..Len(segments[r]) :
        origin[r][k].kind = "widget" =>
            segments[r][k].type = TableType(WidgetAt(r, origin[r][k]).field_type_string)

\* a widget with no type string was mapped to Form Field
C7_Witness ==
    \E r \in Requests :
        /\ pc[r] = "done"
        /\ response[r].success
        /\ \E k \in 1..Len(segments[r]) :
             /\ origin[r][k].kind = "widget"
             /\ WidgetAt(r, origin[r][k]).field_type_string = PyNone
             /\ segments[r][k].type = "Form Field"

\* the positions <<page, block, line>> of the lines of the document's text blocks
LinePositions(doc) ==
    UNION { UNION { { <<p, b, l>> : l \in 1..Len(doc[p].blocks[b].lines) } :
                    b \in { c \in 1..Len(doc[p].blocks) : doc[p].blocks[c].type = 0 } } :
            p \in 1..Len(doc) }

\* the positions <<page, widget>> of the widgets of the document
WidgetPositions(doc) ==
    UNION { { <<p, w>> : w \in 1..Len(doc[p].widgets) } : p \in 1..Len(doc) }

JoinedText(doc, x) == JoinSpace(doc[x[1]].blocks[x[2]].lines[x[3]].spans)

\* the text lines whose joined span text is non-empty after trimming
NonEmptyLines(doc) == { x \in LinePositions(doc) : Strip(JoinedText(doc, x)) # << >> }

\* the text lines that are empty or whitespace only
BlankLines(doc) == { x \in LinePositions(doc) : Strip(JoinedText(doc, x)) = << >> }

\* the widgets with a rectangle
RectWidgets(doc) == { x \in WidgetPositions(doc) : doc[x[1]].widgets[x[2]].rect # NoRect }

\* the widgets without a rectangle
NoRectWidgets(doc) == { x \in WidgetPositions(doc) : doc[x[1]].widgets[x[2]].rect = NoRect }

\* C8: a walk that met no exception returns success, with as many segments as the
\* document has non-blank text lines plus widgets with a rectangle.
C8_SegmentCount ==
    \A r \in Requests :
        (pc[r] = "done" /\ raised_at[r] = "none") =>
            /\ response[r].success
            /\ Len(response[r].segments) =
                   Cardinality(NonEmptyLines(file[r].doc)) + Cardinality(RectWidgets(file[r].doc))

\* a document with blank lines and a widget without a rectangle was analysed
C8_Witness ==
    \E r \in Requests :
        /\ pc[r] = "done"
        /\ response[r].success
        /\ BlankLines(file[r].doc) # {}
        /\ NoRectWidgets(file[r].doc) # {}
        /\ Len(response[r].segments) > 2

\* origin a is discovered before origin b
DiscoveredBefore(a, b) ==
    \/ a.page < b.page
    \/ /\ a.page = b.page
       /\ \/ a.kind = "line" /\ b.kind = "widget"
          \/ a.kind = "line" /\ b.kind = "line" /\ a.block < b.block
          \/ a.kind = "line" /\ b.kind = "line" /\ a.block = b.block /\ a.item < b.item
          \/ a.kind = "widget" /\ b.kind = "widget" /\ a.item < b.item

\* (left, top) of the source of a segment
SourcePosition(r, o) ==
    IF o.kind = "widget"
    THEN << WidgetAt(r, o).rect[1], WidgetAt(r, o).rect[2] >>
    ELSE IF LineAt(r, o).bbox = NoBBox THEN <<0, 0>>
    ELSE << LineAt(r, o).bbox[1], LineAt(r, o).bbox[2] >>

\* C9: the returned list is in discovery order: segment k is the k-th discovered
\* source, page p of the source gives page_number p, page_number never decreases,
\* and on one page the text lines come first, lines and widgets in source order.
C9_DiscoveryOrder ==
    \A r \in Requests :
        (pc[r] = "done" /\ response[r].success) =>
            LET segs == response[r].segments
            IN  /\ Len(segs) = Len(origin[r])
                /\ \A k \in 1..Len(segs) :
                     /\ segs[k].page_number = origin[r][k].page
                     /\ segs[k].page_number >= 1
                     /\ << segs[k].left, segs[k].top >> = SourcePosition(r, origin[r][k])
                /\ \A k, l \in 1..Len(segs) :
                     k < l => /\ segs[k].page_number <= segs[l].page_number
                              /\ DiscoveredBefore(origin[r][k], origin[r][l])

\* a two-page result with a line after a widget of the page before, and two lines
\* and two widgets of one page
C9_Witness ==
    \E r \in Requests :
        /\ pc[r] = "done"
        /\ response[r].success
        /\ \E k, l \in 1..Len(origin[r]) :
             /\ k < l
             /\ origin[r][k].kind = "widget" /\ origin[r][k].page = 1
             /\ origin[r][l].kind = "line" /\ origin[r][l].page = 2
        /\ \E k, l \in 1..Len(origin[r]) :
             /\ k < l
             /\ origin[r][k].kind = "widget" /\ origin[r][l].kind = "widget"
             /\ origin[r][k].page = origin[r][l].page

\* C10: after an exception at any step of the try block the request has returned
\* success=false, no segments, num_pages=0 and a non-null error.
C10_FailureResponse ==
    \A r \in Requests :
        raised_at[r] # "none" =>
            /\ pc[r] = "done"
            /\ ~response[r].success
            /\ response[r].segments = << >>
            /\ response[r].num_pages = 0
            /\ response[r].error # PyNone

\* an exception at a widget, after segments had been collected, returned none of them
C10_Witness ==
    \E r \in Requests :
        /\ raised_at[r] = "widgets"
        /\ Len(segments[r]) > 0
        /\ pc[r] = "done"
        /\ response[r].segments = << >>
        /\ response[r].error = PyStr(<< >>)

\* the single-page document of the end-to-end scenario: five lines at tops 10, 50,
\* 70, 90 and 130
ScenarioDoc == << Page(612, 792, << B_head, B_form, B_ssn >>, << >>) >>

s_SSN_line == <<"S","S","N",":"," ","1","2","3","-","4","5","-","6","7","8","9">>

\* the scenario's five segments, in order, with every type but the first
ScenarioRest(segs) ==
    /\ Len(segs) = 5
    /\ [k \in 1..5 |-> segs[k].text] =
           << s_APPLICATION_FORM, s_Name_colon, s_John_Doe, s_SSN_line, s_Signature_line >>
    /\ [k \in 1..5 |-> segs[k].top] = << 10, 50, 70, 90, 130 >>
    /\ segs[2].type = "Label"
    /\ segs[3].type = "Text"
    /\ segs[4].type \in { "Form Field", "Text" } /\ segs[4].is_pii
    /\ segs[5].type = "Signature" /\ segs[5].is_pii

\* C14 as stated: the scenario yields 5 segments typed Section Header or Title,
\* Label, Text, Form Field or Text (PII), Signature (PII).
C14_ScenarioHeaderFirst ==
    \A r \in Requests :
        (pc[r] = "done" /\ response[r].success /\ file[r].doc = ScenarioDoc) =>
            /\ ScenarioRest(response[r].segments)
            /\ response[r].segments[1].type \in { "Section Header", "Title" }

\* C14 amended: the scenario yields 5 segments typed Text, Label, Text, Form Field
\* or Text (PII), Signature (PII): "APPLICATION FORM" holds no header keyword.
C14_ScenarioTextFirst ==
    \A r \in Requests :
        (pc[r] = "done" /\ response[r].success /\ file[r].doc = ScenarioDoc) =>
            /\ ScenarioRest(response[r].segments)
            /\ response[r].segments[1].type = "Text"

\* the scenario document was analysed
C14_Witness ==
    \E r \in Requests :
        /\ pc[r] = "done"
        /\ response[r].success
        /\ file[r].doc = ScenarioDoc
        /\ Len(response[r].segments) = 5

s_agree_checked == <<"a","g","r","e","e",":"," ","c","h","e","c","k","e","d">>
s_agree_True == <<"a","g","r","e","e",":"," ","T","r","u","e">>

\* the widget of the claim: a Btn named agree, value true, with a rectangle
IsAgreeButton(widget) ==
    /\ widget.rect # NoRect
    /\ widget.field_type_string = PyStr(ft_Btn)
    /\ widget.field_name = PyStr(s_agree)
    /\ widget.field_value = PyBool(TRUE)

\* the segments that came from the widget at page p, index i of request r
SegmentsOfWidget(r, p, i) ==
    { k \in 1..Len(segments[r]) :
        origin[r][k].kind = "widget" /\ origin[r][k].page = p /\ origin[r][k].item = i }

\* the agree buttons of request r that the walk has passed
AgreeButtonsDone(r) ==
    { o \in WidgetPositions(file[r].doc) :
        /\ IsAgreeButton(file[r].doc[o[1]].widgets[o[2]])
        /\ pc[r] = "done" /\ response[r].success }

\* C15 as stated: a Btn widget named agree with value true yields one Checkbox
\* segment whose text is "agree: checked".
C15_AgreeChecked ==
    \A r \in Requests : \A o \in AgreeButtonsDone(r) :
        /\ Cardinality(SegmentsOfWidget(r, o[1], o[2])) = 1
        /\ \A k \in SegmentsOfWidget(r, o[1], o[2]) :
              /\ response[r].segments[k].type = "Checkbox"
              /\ response[r].segments[k].text = s_agree_checked

\* C15 amended: a Btn widget named agree with value true yields one Checkbox
\* segment whose text is "agree: True", the value as Python formats it.
C15_AgreeTrue ==
    \A r \in Requests : \A o \in AgreeButtonsDone(r) :
        /\ Cardinality(SegmentsOfWidget(r, o[1], o[2])) = 1
        /\ \A k \in SegmentsOfWidget(r, o[1], o[2]) :
              /\ response[r].segments[k].type = "Checkbox"
              /\ response[r].segments[k].text = s_agree_True

\* a document holding the agree button was analysed
C15_Witness ==
    \E r \in Requests : AgreeButtonsDone(r) # {}

ftk_tax == <<"t","a","x">>
ftk_irs == <<"i","r","s">>
ftk_1040 == <<"1","0","4","0">>
ftk_insurance == <<"i","n","s","u","r","a","n","c","e">>
ftk_coverage == <<"c","o","v","e","r","a","g","e">>
ftk_application == <<"a","p","p","l","i","c","a","t","i","o","n">>
ftk_medical == <<"m","e","d","i","c","a","l">>
ftk_health == <<"h","e","a","l","t","h">>
ftk_patient == <<"p","a","t","i","e","n","t">>
s_Tax_Form == <<"T","a","x"," ","F","o","r","m">>
s_Insurance_Form == <<"I","n","s","u","r","a","n","c","e"," ","F","o","r","m">>
s_Application_Form == <<"A","p","p","l","i","c","a","t","i","o","n"," ","F","o","r","m">>
s_Medical_Form == <<"M","e","d","i","c","a","l"," ","F","o","r","m">>

\* the form type the claim derives from the joined lower-cased text of the segments
DerivedFormType(segs) ==
    LET joined == ToLower(JoinSpace([k \in 1..Len(segs) |-> segs[k].text]))
    IN  IF AnyIn(<< ftk_tax, ftk_irs, ftk_1040 >>, joined) THEN PyStr(s_Tax_Form)
        ELSE IF AnyIn(<< ftk_insurance, ftk_coverage >>, joined) THEN PyStr(s_Insurance_Form)
        ELSE IF AnyIn(<< ftk_application >>, joined) THEN PyStr(s_Application_Form)
        ELSE IF AnyIn(<< ftk_medical, ftk_health, ftk_patient >>, joined) THEN PyStr(s_Medical_Form)
        ELSE PyNone

\* C16: on success the response's form_type is the first matching keyword group of
\* the joined lower-cased segment text, and null only when no group matches.
C16_FormTypeDerived ==
    \A r \in Requests :
        (pc[r] = "done" /\ response[r].success) =>
            response[r].form_type = DerivedFormType(response[r].segments)

\* the segments a document yields by itself: per page, the text lines of the text
\* blocks, then the widgets with a rectangle
RECURSIVE AloneLines(_, _, _)
AloneLines(lines, page, page_index) ==
    IF lines = << >> THEN << >>
    ELSE (IF line_has_text(Head(lines))
          THEN << LineSegment(Head(lines), page, page_index) >> ELSE << >>)
         \o AloneLines(Tail(lines), page, page_index)

RECURSIVE AloneBlocks(_, _, _)
AloneBlocks(blocks, page, page_index) ==
    IF blocks = << >> THEN << >>
    ELSE (IF Head(blocks).type = 0
          THEN AloneLines(Head(blocks).lines, page, page_index) ELSE << >>)
         \o AloneBlocks(Tail(blocks), page, page_index)

RECURSIVE AloneWidgets(_, _, _)
AloneWidgets(widgets, page, page_index) ==
    IF widgets = << >> THEN << >>
    ELSE (IF widget_has_rect(Head(widgets))
          THEN << WidgetSegment(Head(widgets), page, page_index) >> ELSE << >>)
         \o AloneWidgets(Tail(widgets), page, page_index)

RECURSIVE AlonePages(_, _)
AlonePages(doc, page_index) ==
    IF page_index >= Len(doc) THEN << >>
    ELSE LET page == doc[page_index + 1]
         IN  AloneBlocks(page.blocks, page, page_index)
             \o AloneWidgets(page.widgets, page, page_index)
             \o AlonePages(doc, page_index + 1)

AloneFilename(u) == IF u.filename = PyNone THEN s_file_pdf ELSE u.filename.s

\* what a finished request returns from its own upload and its own failure only
IsAloneResult(r) ==
    IF raised_at[r] = "none"
    THEN response[r] = [success |-> TRUE, filename |-> AloneFilename(file[r]),
                        num_pages |-> Len(file[r].doc),
                        segments |-> AlonePages(file[r].doc, 0),
                        fields |-> << >>, form_type |-> PyNone, error |-> PyNone]
    ELSE /\ response[r].success = FALSE
         /\ response[r].filename = AloneFilename(file[r])
         /\ response[r].num_pages = 0
         /\ response[r].segments = << >>
         /\ response[r].error \in { PyStr(e) : e \in ErrorMessages }

IsPrefix(s, t) == Len(s) <= Len(t) /\ \A k \in 1..Len(s) : s[k] = t[k]

\* C17: two interleaved requests on different documents each return what they
\* would return alone; no segment, page count or error crosses between them.
C17_Isolation ==
    \A r \in Requests :
        /\ IsPrefix(segments[r], AlonePages(file[r].doc, 0))
        /\ pc[r] = "done" => IsAloneResult(r)

\* both requests finished, one after the other had already collected segments,
\* with different results
C17_Witness ==
    /\ pc[1] = "done" /\ pc[2] = "done"
    /\ response[1].success /\ response[2].success
    /\ response[1].segments # << >> /\ response[2].segments # << >>
    /\ response[1].segments # response[2].segments

\* the widget has a value that is not empty
HasValue(widget) == widget.field_value \notin { PyNone, PyStr(<< >>), PyBool(FALSE) }

\* "name: value" for a widget with a value, the bare name otherwise
DisplayText(name, widget) ==
    IF HasValue(widget) THEN name \o <<":", " ">> \o Format(widget.field_value) ELSE name

\* the widget's own field name, empty when it has none
OwnName(widget) == IF widget.field_name.kind = "str" THEN widget.field_name.s ELSE << >>

\* the widget's field name, "Field" when it has none or an empty one
NameOrField(widget) == IF OwnName(widget) = << >> THEN s_Field ELSE OwnName(widget)

\* C25 as stated: a widget segment's text is "name: value" or the widget's field
\* name, and is_pii is check_pii of that text.
C25_WidgetTextOwnName ==
    \A r \in Requests : \A k \in 1..Len(segments[r]) :
        origin[r][k].kind = "widget" =>
            LET widget == WidgetAt(r, origin[r][k])
            IN  /\ segments[r][k].text = DisplayText(OwnName(widget), widget)
                /\ segments[r][k].is_pii = check_pii(segments[r][k].text)

\* C25 amended: a widget segment's text is "name: value" or the name, where the
\* name is the widget's field name or "Field" when it is missing or empty, and
\* is_pii is check_pii of that text.
C25_WidgetTextNameOrField ==
    \A r \in Requests : \A k \in 1..Len(segments[r]) :
        origin[r][k].kind = "widget" =>
            LET widget == WidgetAt(r, origin[r][k])
            IN  /\ segments[r][k].text = DisplayText(NameOrField(widget), widget)
                /\ segments[r][k].is_pii = check_pii(segments[r][k].text)

\* a widget with no name gave the text "Field" and a widget with a value gave a
\* "name: value" text flagged as PII
C25_Witness ==
    \E r \in Requests : \E k, l \in 1..Len(segments[r]) :
        /\ origin[r][k].kind = "widget"
        /\ WidgetAt(r, origin[r][k]).field_name = PyNone
        /\ segments[r][k].text = s_Field
        /\ origin[r][l].kind = "widget"
        /\ HasValue(WidgetAt(r, origin[r][l]))
        /\ segments[r][l].is_pii

\* the bounding box a consumer rebuilds from a segment's geometry
BBoxOf(seg) == << seg.left, seg.top, seg.left + seg.width, seg.top + seg.height >>

\* C26: a text-line segment's type is the classifier's result on the segment's
\* stored, trimmed text and geometry.
C26_TypeOfStoredText ==
    \A r \in Requests : \A k \in 1..Len(segments[r]) :
        origin[r][k].kind = "line" =>
            LET seg == segments[r][k]
            IN  seg.type = classify_text_type(seg.text, BBoxOf(seg), seg.page_width,
                                              seg.page_height)

\* C29: when a request has returned, on success or failure, its temporary file is
\* deleted and its document is closed.
C29_NoTempFileLeft ==
    \A r \in Requests : pc[r] = "done" => (~tmp_file[r] /\ ~doc_open[r])

(***************************************************************************)
(* Claims about the order of the classifier's rules                        *)
(***************************************************************************)
\* the text contains signature, sign here or date: in any letter case
HasSignaturePattern(text) ==
    \E p \in { kw_signature, pat_sign_here, pat_date_colon } : Contains(ToLower(text), p)

\* the trimmed, lower-cased text equals or starts with one of the listed tokens
StartsWithToken(text, tokens) ==
    \E t \in tokens : StartsWith(Strip(ToLower(text)), t)

SpecCheckboxTokens ==
    { tok_yes, tok_no, tok_box_empty, tok_box_x, <<"U25A1">>, tok_ballot, tok_ballot_checked }

CodeCheckboxTokens ==
    { tok_yes, tok_no, tok_box_empty, tok_box_x, tok_ballot, tok_ballot_checked }

\* shorter than 50, a header keyword, and in the top 15% of the page or ending ':'
HeaderCondition(text, y0, page_height) ==
    /\ Len(text) < 50
    /\ \E k \in { kw_section, kw_part, kw_step, kw_instructions, kw_information } :
           Contains(ToLower(text), k)
    /\ (y0 * 100 < 15 * page_height \/ text[Len(text)] = ":")

\* shorter than 40 and ending with ':' or '?'
LabelCondition(text) ==
    Len(text) < 40 /\ text # << >> /\ text[Len(text)] \in { ":", "?" }

\* C18 as stated: with no signature pattern, a text starting with yes, no, [ ],
\* [x] or one of the three boxes is a Checkbox, also when the label rule matches.
C18_CheckboxFirst ==
    ( /\ call.made
      /\ ~HasSignaturePattern(call.text)
      /\ StartsWithToken(call.text, SpecCheckboxTokens) )
    => call.result = "Checkbox"

\* C18 amended: the checkbox rule comes after the section-header and label rules
\* and knows yes, no, [ ], [x], U+2610 and U+2611: with no signature pattern such a
\* text is a Section Header or a Label when those rules match ("Yes?", "No:"),
\* and a Checkbox otherwise.
C18_CheckboxAfterHeaderAndLabel ==
    ( /\ call.made
      /\ ~HasSignaturePattern(call.text)
      /\ StartsWithToken(call.text, CodeCheckboxTokens) )
    => call.result =
         IF HeaderCondition(call.text, call.bbox[2], call.page_height) THEN "Section Header"
         ELSE IF LabelCondition(call.text) THEN "Label"
         ELSE "Checkbox"

\* a short text starting with yes or no and ending ':' or '?' was classified Label
C18_Witness ==
    /\ call.made
    /\ ~HasSignaturePattern(call.text)
    /\ StartsWithToken(call.text, { tok_yes, tok_no })
    /\ LabelCondition(call.text)
    /\ call.result = "Label"

\* C19: with no signature pattern and no checkbox prefix, the result is Section
\* Header exactly when the text is shorter than 50, holds a header keyword, and is
\* in the top 15% of the page or ends with ':'.
C19_SectionHeaderIff ==
    ( /\ call.made
      /\ ~HasSignaturePattern(call.text)
      /\ ~StartsWithToken(call.text, SpecCheckboxTokens) )
    => ( call.result = "Section Header"
           <=> HeaderCondition(call.text, call.bbox[2], call.page_height) )

\* a keyword text ending ':' below the top of the page, which the label rule
\* matches too, was classified Section Header
C19_Witness ==
    /\ call.made
    /\ ~HasSignaturePattern(call.text)
    /\ ~StartsWithToken(call.text, SpecCheckboxTokens)
    /\ call.bbox[2] * 100 >= 15 * call.page_height
    /\ LabelCondition(call.text)
    /\ HeaderCondition(call.text, call.bbox[2], call.page_height)
    /\ call.result = "Section Header"

\* C20: a text that matches none of the signature, checkbox and section-header
\* rules is a Label exactly when it is shorter than 40 and ends with ':' or '?'.
C20_LabelIff ==
    ( /\ call.made
      /\ ~HasSignaturePattern(call.text)
      /\ ~StartsWithToken(call.text, SpecCheckboxTokens)
      /\ ~HeaderCondition(call.text, call.bbox[2], call.page_height) )
    => (call.result = "Label" <=> LabelCondition(call.text))

\* a short text ending '?' that no header keyword marks was classified Label
C20_Witness ==
    /\ call.made
    /\ ~HasSignaturePattern(call.text)
    /\ ~StartsWithToken(call.text, SpecCheckboxTokens)
    /\ ~HeaderCondition(call.text, call.bbox[2], call.page_height)
    /\ LabelCondition(call.text)
    /\ call.text[Len(call.text)] = "?"
    /\ call.result = "Label"

(***************************************************************************)
(* Claims about the grouping functions (SpecGroup)                         *)
(***************************************************************************)
\* the places <<page, position>> of the by-page grouping
PagePlaces(pages) == UNION { { <<p, k>> : k \in 1..Len(pages[p]) } : p \in DOMAIN pages }

\* C11: group_segments_by_page partitions the input: every index 0..n-1 is at
\* exactly one place, under the key of its segment's page_number and paired with
\* its segment, and the indices of each sub-list increase strictly.
C11_PagePartition ==
    grp.made =>
        /\ \A i \in 0..(Len(grp.segments) - 1) :
             LET at == { x \in PagePlaces(grp.pages) : grp.pages[x[1]][x[2]][1] = i }
             IN  /\ Cardinality(at) = 1
                 /\ \A x \in at : /\ x[1] = grp.segments[i + 1].page_number
                                  /\ grp.pages[x[1]][x[2]][2] = grp.segments[i + 1]
        /\ \A x \in PagePlaces(grp.pages) :
             grp.pages[x[1]][x[2]][1] \in 0..(Len(grp.segments) - 1)
        /\ \A p \in DOMAIN grp.pages : \A k, l \in 1..Len(grp.pages[p]) :
             k < l => grp.pages[p][k][1] < grp.pages[p][l][1]

\* a list whose pages interleave was grouped into two pages, one with two members
C11_Witness ==
    /\ grp.made
    /\ Len(grp.segments) = 3
    /\ grp.segments[1].page_number = 2
    /\ grp.segments[2].page_number = 1
    /\ grp.segments[3].page_number = 2
    /\ Cardinality(DOMAIN grp.pages) = 2
    /\ Len(grp.pages[2]) = 2

\* the member lists of the sections, concatenated in emission order
RECURSIVE ConcatMembers(_)
ConcatMembers(sections) ==
    IF sections = << >> THEN << >>
    ELSE sections[1].members \o ConcatMembers(Tail(sections))

\* C12: the concatenated member lists are the input segments sorted ascending by
\* (page_number, top): every original index once, paired with its segment.
C12_SectionsRoundTrip ==
    grp.made =>
        LET all == ConcatMembers(grp.sections)
        IN  /\ Len(all) = Len(grp.segments)
            /\ \A i \in 0..(Len(grp.segments) - 1) :
                 Cardinality({ k \in 1..Len(all) : all[k][1] = i }) = 1
            /\ \A k \in 1..Len(all) :
                 /\ all[k][1] \in 0..(Len(grp.segments) - 1)
                 /\ all[k][2] = grp.segments[all[k][1] + 1]
            /\ \A k, l \in 1..Len(all) :
                 k < l => \/ all[k][2].page_number < all[l][2].page_number
                          \/ /\ all[k][2].page_number = all[l][2].page_number
                             /\ all[k][2].top <= all[l][2].top

\* a list given with page 2 first and a high top before a low one came out sorted,
\* in more than one section
C12_Witness ==
    /\ grp.made
    /\ Len(grp.segments) = 3
    /\ grp.segments[1].page_number = 2
    /\ grp.segments[2].page_number = 1
    /\ grp.segments[3].page_number = 1
    /\ grp.segments[2].top > grp.segments[3].top
    /\ Len(grp.sections) > 1
    /\ ConcatMembers(grp.sections)[1][1] = 2

\* C13: no section has more than 15 members.
C13_SectionCap ==
    grp.made => \A n \in 1..Len(grp.sections) : Len(grp.sections[n].members) <= 15

\* 17 close segments without a header were split into sections of 15 and 2
C13_Witness ==
    /\ grp.made
    /\ Len(grp.segments) = 17
    /\ \A i \in 1..17 : ~is_header(grp.segments[i])
    /\ Len(grp.sections) = 2
    /\ Len(grp.sections[1].members) = 15
    /\ Len(grp.sections[2].members) = 2

\* header-like as the claims word it: type Header or Title, all upper-case text, or
\* text ending with ':'
HeaderLike(seg) ==
    \/ seg.type \in { "Header", "Title" }
    \/ IsUpper(seg.text)
    \/ seg.text # << >> /\ seg.text[Len(seg.text)] = ":"

\* the places <<n, k>> of the members of the sections
SectionPlaces(sections) ==
    UNION { { << n, k >> : k \in 1..Len(sections[n].members) } : n \in 1..Len(sections) }

\* C21: every header-like segment is the first member of its section.
C21_HeaderOpensSection ==
    grp.made =>
        \A x \in SectionPlaces(grp.sections) :
            HeaderLike(grp.sections[x[1]].members[x[2]][2]) => x[2] = 1

\* a header-like segment close below a short section closed it and opened the next
C21_Witness ==
    /\ grp.made
    /\ \E n \in 2..Len(grp.sections) :
         LET before == grp.sections[n - 1].members
             first == grp.sections[n].members[1][2]
         IN  /\ HeaderLike(first)
             /\ Len(before) < 15
             /\ first.top - before[Len(before)][2].top \in 0..50

\* C22: two segments adjacent inside one section have tops that differ by at most
\* 50 units.
C22_GapSplits ==
    grp.made =>
        \A x \in SectionPlaces(grp.sections) :
            x[2] > 1 =>
                LET members == grp.sections[x[1]].members
                    d == members[x[2]][2].top - members[x[2] - 1][2].top
                IN  d \in (-50)..50

\* a segment that is no header, more than 50 units above the one swept before it
\* (on the page before), opened a new section
C22_Witness ==
    /\ grp.made
    /\ \E n \in 2..Len(grp.sections) :
         LET before == grp.sections[n - 1].members
             first == grp.sections[n].members[1][2]
         IN  /\ ~HeaderLike(first)
             /\ Len(before) < 15
             /\ before[Len(before)][2].top - first.top > 50

\* the first n elements of a sequence, or all of it
FirstN(seq, n) == [i \in 1..(IF Len(seq) < n THEN Len(seq) ELSE n) |-> seq[i]]

\* the title C23 states: the first of the first 3 members that is of type Header or
\* Title, all upper-case, or ends with ':', without its colons, cut to 50; else
\* "Section n"
StatedTitle(members, n) ==
    LET hits == { k \in 1..Len(FirstN(members, 3)) : HeaderLike(members[k][2]) }
    IN  IF hits = {} THEN s_Section_sp \o IntToStr(n)
        ELSE LET k == CHOOSE i \in hits : \A j \in hits : i <= j
             IN  FirstN(RemoveColons(members[k][2].text), 50)

\* C23 as stated: each section's title is the stated title, where an all
\* upper-case member counts and the colon is always stripped.
C23_TitleOfHeaderLike ==
    grp.made =>
        \A n \in 1..Len(grp.sections) :
            grp.sections[n].title = StatedTitle(grp.sections[n].members, n)

\* the title of the amended claim: the first of the first 3 members that is of type
\* Header or Title gives its text cut to 50, with its colons; one whose trimmed text
\* ends with ':' gives its text without colons, trimmed and cut to 50
AmendedTitle(members, n) ==
    LET Typed(seg) == seg.type \in { "Header", "Title" }
        Colon(seg) == LET t == Strip(seg.text) IN t # << >> /\ t[Len(t)] = ":"
        hits == { k \in 1..Len(FirstN(members, 3)) :
                    Typed(members[k][2]) \/ Colon(members[k][2]) }
    IN  IF hits = {} THEN s_Section_sp \o IntToStr(n)
        ELSE LET seg == members[CHOOSE i \in hits : \A j \in hits : i <= j][2]
             IN  IF Typed(seg) THEN FirstN(seg.text, 50)
                 ELSE FirstN(Strip(RemoveColons(seg.text)), 50)

\* C23 amended: the title comes from the first of the first 3 members that has type
\* Header or Title (text cut to 50, colons kept) or whose trimmed text ends with ':'
\* (colons removed, trimmed, cut to 50); else it is "Section n", n the 1-based
\* position. All upper-case text alone gives no title.
C23_TitleOfTypedOrColon ==
    grp.made =>
        \A n \in 1..Len(grp.sections) :
            grp.sections[n].title = AmendedTitle(grp.sections[n].members, n)

\* one section got a title cut to 50 characters and a later one was named by its
\* position
C23_Witness ==
    /\ grp.made
    /\ \E n \in 1..Len(grp.sections) :
         /\ Len(grp.sections[n].title) = 50
         /\ Len(grp.sections[n].members[1][2].text) > 51
    /\ \E n \in 2..Len(grp.sections) :
         grp.sections[n].title = s_Section_sp \o IntToStr(n)

C27_SectionOnOnePage ==
    grp.made =>
        \A n \in 1..Len(grp.sections) : \A k, l \in 1..Len(grp.sections[n].members) :
            grp.sections[n].members[k][2].page_number
                = grp.sections[n].members[l][2].page_number

\* the segment has the type, and the text and place, of a classifier's Section Header
TypedSectionHeader(seg) ==
    /\ seg.type = "Section Header"
    /\ classify_text_type(seg.text, BBoxOf(seg), seg.page_width, seg.page_height)
           = "Section Header"

\* C28: a segment the classifier typed Section Header opens its section and gives
\* the section its title.
C28_SectionHeaderIsHeader ==
    grp.made =>
        \A x \in SectionPlaces(grp.sections) :
            TypedSectionHeader(grp.sections[x[1]].members[x[2]][2]) =>
                /\ x[2] = 1
                /\ grp.sections[x[1]].title
                       = FirstN(grp.sections[x[1]].members[x[2]][2].text, 50)

(***************************************************************************)
(* Claims about store_embeddings (SpecStore)                               *)
(***************************************************************************)
\* C30: when store_embeddings has returned, success=false means that no record of
\* the request is in segment_embeddings, and success=true that stored_count is the
\* number of records inserted.
C30_AllOrNothing ==
    store_pc = "done" =>
        /\ ~store_response.success => segment_embeddings = << >>
        /\ store_response.success => store_response.stored_count = Len(segment_embeddings)

====
